---- MODULE Spec2Model ----
(***************************************************************************)
(* Model of the taxi-trip pipeline: load.py (download_parquet,             *)
(* load_parquet_files) and clean.py (the five removal rules, clean_table,  *)
(* verify_cleaning_conditions).                                            *)
(*                                                                         *)
(* The DuckDB store is the variable db: one entry per vehicle class, which *)
(* is NoTable or a table, whose rows are a function from rowid to row.  A  *)
(* row is a function from column name to value; a nullable SQL value is    *)
(* <<>> (NULL) or <<v>>.                                                   *)
(* A DELETE ... WHERE p removes exactly the rows on which p is TRUE (SQL   *)
(* three-valued logic: a NULL operand makes p NULL, and the row stays).    *)
(***************************************************************************)
EXTENDS Integers, Sequences, FiniteSets, TLC

VARIABLES
    db,          \* the store: class name -> NoTable or Table([rowid -> row])
    main,        \* clean.py: the position of main, its loop index and its connection
    removed,     \* clean.py: the removed counts of the rules clean_table has run so far
    total_removed, \* clean.py: clean_table's running total
    verify,      \* clean.py: the counts and the result of the last verify_cleaning_conditions
    cleaned,     \* clean.py: the tables on which a clean_table call has completed
    calls,       \* clean.py: the table as the rules in progress first got it, and the
                 \*           rules (1..5) called on it since, in call order
    cached,      \* load.py: the keys whose file exists in the cache directory data/
    complete,    \* load.py: the cached keys whose file was written to the end
    run,         \* load.py: the position of load_parquet_files and its locals
    lastFetch,   \* load.py: what the last download_parquet call of the run in progress did
    transfers,   \* load.py: per published key, how many body transfers were started
    faults,      \* the archive: how many downloads of published files have failed
    script       \* load.py: the position of the script body after load_parquet_files,
                 \*          and the connection it opens for the summaries

cleanVars == <<main, removed, total_removed, verify, cleaned, calls>>
loadVars == <<cached, complete, run, lastFetch, transfers, faults, script>>
vars == <<db, main, removed, total_removed, verify, cleaned, calls, cached, complete,
          run, lastFetch, transfers, faults, script>>

----------------------------------------------------------------------------
(* Bounds of the model *)

\* at most this many rows in a table handed to clean.py
MaxRows == 3
\* the remote archive has published this many months of the published year
NumPublished == 2
\* at most this many runs of load_parquet_files
MaxRuns == 2
\* at most this many downloads of published files fail (by status or in mid-transfer)
MaxFaults == 1

(* Program constants *)

\* clean.py:123 and :254, trip_distance > 100
MaxMiles == 100
\* clean.py:151 and :265, EXTRACT(EPOCH ...) > 86400
MaxSeconds == 86400

\* load.py:79, cab_types=("yellow", "green"); clean.py:301, tables_to_clean
CabTypes == <<"yellow", "green">>
CabSet == {CabTypes[i] : i \in 1..Len(CabTypes)}

\* load.py:91, for month in range(1, 13)
LastMonth == 12
Months == 1..LastMonth

NULL == <<>>
\* an entry of db: a table that does not exist, or a table and its rows by rowid
NoTable == [exists |-> FALSE, rows |-> <<>>]
Table(t) == [exists |-> TRUE, rows |-> t]

----------------------------------------------------------------------------
(* Rows and SQL helpers *)

PickupCol(table) ==
    IF table = "yellow" THEN "tpep_pickup_datetime" ELSE "lpep_pickup_datetime"

DropoffCol(table) ==
    IF table = "yellow" THEN "tpep_dropoff_datetime" ELSE "lpep_dropoff_datetime"

\* a row of a source file: the six columns clean.py reads
MkRow(table, pu, do, pul, dol, dist, pcnt) ==
    (PickupCol(table) :> pu) @@ (DropoffCol(table) :> do)
    @@ [PULocationID |-> pul, DOLocationID |-> dol, trip_distance |-> dist,
        passenger_count |-> pcnt]

\* SELECT COUNT(*) FROM table
CountRows(t) == Cardinality(DOMAIN t)

\* a variant that leaves passenger_count out of the key
DupKeyWithoutPassengers(table, r) ==
    <<r[PickupCol(table)], r[DropoffCol(table)], r.PULocationID, r.DOLocationID,
      r.trip_distance>>

\* The GROUP BY / COUNT(DISTINCT ...) key of a row; NULLs group together.
DupKey(table, r) ==
    <<r[PickupCol(table)], r[DropoffCol(table)], r.PULocationID, r.DOLocationID,
      r.trip_distance, r.passenger_count>>

SetMin(S) == CHOOSE x \in S : \A y \in S : x <= y

\* DELETE FROM t WHERE p: the rows on which p is not TRUE stay, rowids unchanged.
DeleteWhere(t, P(_, _)) == [i \in {j \in DOMAIN t : ~P(j, t[j])} |-> t[i]]

\* passenger_count = 0
IsZeroPassenger(r) == r.passenger_count # NULL /\ r.passenger_count[1] = 0

\* a variant with <= in the place of =
IsNotPositiveMile(r) == r.trip_distance # NULL /\ r.trip_distance[1] <= 0

\* trip_distance = 0
IsZeroMile(r) == r.trip_distance # NULL /\ r.trip_distance[1] = 0

\* trip_distance > 100
IsLongDistance(r) == r.trip_distance # NULL /\ r.trip_distance[1] > MaxMiles

\* EXTRACT(EPOCH FROM (dropoff - pickup)): NULL when either timestamp is NULL
EpochDiff(table, r) ==
    IF r[PickupCol(table)] = NULL \/ r[DropoffCol(table)] = NULL
    THEN NULL
    ELSE <<r[DropoffCol(table)][1] - r[PickupCol(table)][1]>>

\* EXTRACT(EPOCH FROM (dropoff - pickup)) > 86400
IsLongDuration(table, r) ==
    EpochDiff(table, r) # NULL /\ EpochDiff(table, r)[1] > MaxSeconds

----------------------------------------------------------------------------
(* clean.py: the five rules as functions from a table to the table after    *)
(* the DELETE                                                              *)

\* a variant that keeps the last row of each group: SELECT MAX(rowid) ... GROUP BY key
MaxRowids(table, t) ==
    {CHOOSE x \in {j \in DOMAIN t : DupKey(table, t[j]) = DupKey(table, t[i])} :
        \A y \in {j \in DOMAIN t : DupKey(table, t[j]) = DupKey(table, t[i])} : y <= x
     : i \in DOMAIN t}

\* SELECT MIN(rowid) FROM t GROUP BY key
MinRowids(table, t) ==
    {SetMin({j \in DOMAIN t : DupKey(table, t[j]) = DupKey(table, t[i])}) : i \in DOMAIN t}

\* a variant that deletes the first row of every group of two or more:
\* rowid IN (SELECT MIN(rowid) ... GROUP BY key HAVING COUNT(*) > 1)
DedupTableDropFirst(table, t) ==
    LET first == {i \in MinRowids(table, t) :
                    \E j \in DOMAIN t : j # i /\ DupKey(table, t[j]) = DupKey(table, t[i])}
        IsFirst(i, r) == i \in first
    IN DeleteWhere(t, IsFirst)

DedupTable(table, t) ==
    LET keep == MinRowids(table, t)
        NotKept(i, r) == i \notin keep
    IN DeleteWhere(t, NotKept)

\* a variant with the comparison reversed: WHERE passenger_count < 0
ZeroPassengerTableNegative(table, t) ==
    LET P(i, r) == r.passenger_count # NULL /\ r.passenger_count[1] < 0
    IN DeleteWhere(t, P)

ZeroPassengerTable(table, t) ==
    LET P(i, r) == IsZeroPassenger(r) IN DeleteWhere(t, P)

ZeroMileTable(table, t) ==
    LET P(i, r) == IsZeroMile(r) IN DeleteWhere(t, P)

\* a variant with a mistyped limit: WHERE trip_distance > 1000
LongDistanceTableTypo(table, t) ==
    LET P(i, r) == r.trip_distance # NULL /\ r.trip_distance[1] > 10 * MaxMiles
    IN DeleteWhere(t, P)

LongDistanceTable(table, t) ==
    LET P(i, r) == IsLongDistance(r) IN DeleteWhere(t, P)

LongDurationTable(table, t) ==
    LET P(i, r) == IsLongDuration(table, r) IN DeleteWhere(t, P)

\* a variant with the two counts exchanged
RemovedSwapped(before, after) == CountRows(after) - CountRows(before)

\* before_count - after_count around one rule
Removed(before, after) == CountRows(before) - CountRows(after)

\* clean_table: the tables after rules 1..5, in the order clean_table calls them
CleanStages(table, t) ==
    LET t1 == DedupTable(table, t)
        t2 == ZeroPassengerTable(table, t1)
        t3 == ZeroMileTable(table, t2)
        t4 == LongDistanceTable(table, t3)
        t5 == LongDurationTable(table, t4)
    IN <<t, t1, t2, t3, t4, t5>>

----------------------------------------------------------------------------
(* clean.py: verify_cleaning_conditions' five counts *)

\* COUNT(*) - COUNT(DISTINCT pickup, dropoff, PU, DO, distance, passengers)
DuplicateCount(table, t) ==
    CountRows(t) - Cardinality({DupKey(table, t[i]) : i \in DOMAIN t})

CountWhere(t, P(_)) == Cardinality({i \in DOMAIN t : P(t[i])})

VerifyCounts(table, t) ==
    LET D(r) == IsLongDuration(table, r)
    IN <<DuplicateCount(table, t), CountWhere(t, IsZeroPassenger),
         CountWhere(t, IsZeroMile), CountWhere(t, IsLongDistance), CountWhere(t, D)>>

\* testN_result = "PASS" if count == 0 else "FAIL"
TestResult(count) == IF count = 0 THEN "PASS" ELSE "FAIL"

\* a variant with any() in the place of all()
AnyTestPasses(counts) == \E i \in 1..Len(counts) : TestResult(counts[i]) = "PASS"

\* all_tests_pass = all([test1_result == "PASS", ..., test5_result == "PASS"])
AllTestsPass(counts) == \A i \in 1..Len(counts) : TestResult(counts[i]) = "PASS"

----------------------------------------------------------------------------
(* load.py: file names.  A string is a sequence of one-character strings.  *)

Digit == <<"0", "1", "2", "3", "4", "5", "6", "7", "8", "9">>
IsDigit(c) == \E d \in 1..Len(Digit) : Digit[d] = c
DigitValue(c) == (CHOOSE d \in 1..Len(Digit) : Digit[d] = c) - 1

RECURSIVE Decimal(_)
\* str(n) of a non-negative integer
Decimal(n) == IF n < 10 THEN <<Digit[n + 1]>> ELSE Decimal(n \div 10) \o <<Digit[(n % 10) + 1]>>

\* f"{month:02d}"
ZeroPad2(n) == IF Len(Decimal(n)) < 2 THEN <<"0">> \o Decimal(n) ELSE Decimal(n)

CabChars(cab) ==
    IF cab = "yellow" THEN <<"y", "e", "l", "l", "o", "w">> ELSE <<"g", "r", "e", "e", "n">>

TripdataChars == <<"_", "t", "r", "i", "p", "d", "a", "t", "a", "_">>
ParquetChars == <<".", "p", "a", "r", "q", "u", "e", "t">>
DataDirChars == <<"d", "a", "t", "a", "/">>

\* f"{cab}_tripdata_{year}-{month:02d}.parquet"
FileName(cab, year, month) ==
    CabChars(cab) \o TripdataChars \o Decimal(year) \o <<"-">> \o ZeroPad2(month)
    \o ParquetChars

\* str(target_dir / filename) with target_dir = Path("data")
OutPath(cab, year, month) == DataDirChars \o FileName(cab, year, month)

AllDigits(s) == \A i \in 1..Len(s) : IsDigit(s[i])

HasAt(s, i, lit) ==
    /\ i + Len(lit) - 1 <= Len(s)
    /\ \A j \in 1..Len(lit) : s[i + j - 1] = lit[j]

\* first i with s[i..] matching pre, then n digits, then post; 0 when there is none
FirstMatch(s, pre, n, post) ==
    LET hits == {i \in 1..Len(s) :
                    /\ HasAt(s, i, pre)
                    /\ i + Len(pre) + n - 1 <= Len(s)
                    /\ AllDigits(SubSeq(s, i + Len(pre), i + Len(pre) + n - 1))
                    /\ HasAt(s, i + Len(pre) + n, post)}
    IN IF hits = {} THEN 0 ELSE SetMin(hits)

\* regexp_extract(s, pre (\d{n}) post, 1): the group, or '' when nothing matches
RegexpExtract(s, pre, n, post) ==
    LET i == FirstMatch(s, pre, n, post)
    IN IF i = 0 THEN <<>> ELSE SubSeq(s, i + Len(pre), i + Len(pre) + n - 1)

\* regexp_extract(filename, '_(\d{4})-', 1)
ExtractYear(filename) == RegexpExtract(filename, <<"_">>, 4, <<"-">>)

\* a variant whose pattern has lost its anchors: regexp_extract(filename, '(\d{2})', 1)
ExtractMonthUnanchored(filename) == RegexpExtract(filename, <<>>, 2, <<>>)

\* regexp_extract(filename, '-(\d{2})\.parquet', 1)
ExtractMonth(filename) == RegexpExtract(filename, <<"-">>, 2, ParquetChars)

\* CAST(s AS INTEGER) succeeds on a non-empty digit string and is an error on ''
CanCastInteger(s) == s # <<>> /\ AllDigits(s)

RECURSIVE CastInteger(_)
CastInteger(s) ==
    IF s = <<>> THEN 0
    ELSE 10 * CastInteger(SubSeq(s, 1, Len(s) - 1)) + DigitValue(s[Len(s)])

----------------------------------------------------------------------------
(* The remote archive and the state of load.py before its first run *)

Key(cab, year, month) == [cab |-> cab, year |-> year, month |-> month]

\* load.py:79 and :138, years=(2024,)
DefaultYear == 2024

\* the archive serves files of two years, of the months that have appeared so far
PublishedYears == {DefaultYear, DefaultYear + 1}
PublishOrder == <<1, 12, 2, 11>>
PublishedMonths == {PublishOrder[i] : i \in 1..NumPublished}
PublishedKeys == {Key(c, y, m) : c \in CabSet, y \in PublishedYears, m \in PublishedMonths}
Published(k) == k \in PublishedKeys

\* the years arguments load_parquet_files is called with: the default, the year
\* after it together with a year the archive has no file of, and that year alone
YearArgs == {<<DefaultYear>>, <<DefaultYear + 1, DefaultYear + 2>>, <<DefaultYear + 2>>}

\* the rows of the remote file of a key: a trip of the month, and a trip with a NULL
\* passenger count whose pickup falls in the month before
RemoteRows(k) ==
    << MkRow(k.cab, <<100 * k.month>>, <<100 * k.month + 10>>, <<1>>, <<2>>, <<5>>, <<1>>),
       MkRow(k.cab, <<100 * k.month - 1>>, <<100 * k.month + 10>>, <<1>>, <<2>>, <<5>>, NULL) >>

StoreTables == CabSet \cup {"vehicle_emissions"}

EmptyStore == [c \in StoreTables |-> NoTable]

NoFetch == [key |-> Key("none", 0, 0), existed |-> FALSE, network |-> FALSE,
            outcome |-> "none", path |-> <<>>]

IdleRun == [pc |-> "idle", years |-> <<>>, ci |-> 0, yi |-> 0, month |-> 0,
            all_files |-> <<>>, con |-> "none", err |-> "none",
            attempted |-> {}, failed |-> {}, obtained |-> [c \in CabSet |-> <<>>],
            created |-> {}, db0 |-> EmptyStore, cached0 |-> {},
            prev |-> [years |-> <<>>, ok |-> FALSE], runs |-> 0]

\* the script is at its first statement, load_parquet_files(years=(2024,))
ScriptAtLoad == [pc |-> "load", ti |-> 0, con |-> "none"]

LoadIdle ==
    /\ cached = {}
    /\ complete = {}
    /\ run = IdleRun
    /\ lastFetch = NoFetch
    /\ transfers = [k \in PublishedKeys |-> 0]
    /\ faults = 0
    /\ script = ScriptAtLoad

----------------------------------------------------------------------------
(* clean.py: the tables handed to main *)

NoVerify == [table |-> "none", counts |-> <<>>, pass |-> FALSE]

IdleMain == [pc |-> "idle", ti |-> 0, con |-> "none"]

NoCalls == [raw |-> <<>>, rules |-> <<>>]

CleanIdle ==
    /\ main = IdleMain
    /\ removed = <<>>
    /\ total_removed = 0
    /\ verify = NoVerify
    /\ cleaned = {}
    /\ calls = NoCalls

\* a raw trip of class table: pickup at 0, the other five key columns as given
Trip(table, do, dol, dist, pcnt) == MkRow(table, <<0>>, do, <<1>>, dol, dist, pcnt)

\* the raw trips the tables are drawn from: valid trips, trips each rule removes,
\* and trips with NULL and negative values and a dropoff before the pickup
RawTrips(table) ==
    { Trip(table, <<600>>, <<1>>, <<5>>, <<2>>),
      Trip(table, <<MaxSeconds>>, <<2>>, <<MaxMiles>>, <<1>>),
      Trip(table, NULL, <<1>>, NULL, NULL),
      Trip(table, <<-60>>, <<1>>, <<-1>>, <<-1>>),
      Trip(table, <<600>>, <<1>>, <<5>>, <<0>>),
      Trip(table, <<600>>, <<1>>, <<0>>, <<1>>),
      Trip(table, <<600>>, <<1>>, <<MaxMiles + 50>>, <<3>>),
      Trip(table, <<MaxSeconds + 1>>, <<1>>, <<5>>, <<2>>),
      Trip(table, <<MaxSeconds + 1>>, <<1>>, <<0>>, <<0>>) }

\* a table of four trips: two equal valid trips of 5 miles, a trip of 0 miles and a
\* trip of 150 miles, each of the three with its own pickup and dropoff
ScenarioTable(table) ==
    LET valid == MkRow(table, <<0>>, <<600>>, <<1>>, <<2>>, <<5>>, <<2>>)
    IN (0 :> valid) @@ (1 :> valid)
       @@ (2 :> MkRow(table, <<1000>>, <<1600>>, <<1>>, <<2>>, <<0>>, <<1>>))
       @@ (3 :> MkRow(table, <<2000>>, <<2600>>, <<1>>, <<2>>, <<MaxMiles + 50>>, <<3>>))

\* the table of one class: up to MaxRows raw trips, or the four trips above
InitClean ==
    /\ \E table \in CabSet :
         \E t \in {ScenarioTable(table)}
                    \cup UNION {[0..(n - 1) -> RawTrips(table)] : n \in 0..MaxRows} :
            db = [c \in StoreTables |-> IF c = table THEN Table(t) ELSE NoTable]
    /\ CleanIdle
    /\ LoadIdle

----------------------------------------------------------------------------
(* clean.py: main, one action per statement that reads or changes the store *)

\* tables_to_clean[ti]
TableAt(m) == CabTypes[m.ti]

\* a variant that leaves the loop after any table
NextTableBreak(m) == [m EXCEPT !.pc = "close"]

\* the next iteration of "for table in tables_to_clean", or the end of the loop
NextTable(m) ==
    IF m.ti < Len(CabTypes)
    THEN [m EXCEPT !.pc = "check", !.ti = m.ti + 1]
    ELSE [m EXCEPT !.pc = "close"]

\* main: con = get_duckdb_connection()
MainConnect ==
    /\ main.pc = "idle"
    /\ main' = [pc |-> "check", ti |-> 1, con |-> "open"]
    /\ UNCHANGED <<db, removed, total_removed, verify, cleaned>>
    /\ UNCHANGED <<calls, loadVars>>

\* main: the information_schema query finds no table: "does not exist, skipping"
SkipMissingTable ==
    /\ main.pc = "check"
    /\ ~db[TableAt(main)].exists
    /\ main' = NextTable(main)
    /\ UNCHANGED <<db, removed, total_removed, verify, cleaned>>
    /\ UNCHANGED <<calls, loadVars>>

\* main: the table exists; initial count; clean_table starts with total_removed = 0
StartCleanTable ==
    /\ main.pc = "check"
    /\ db[TableAt(main)].exists
    /\ main' = [main EXCEPT !.pc = "duplicates"]
    /\ removed' = <<>>
    /\ total_removed' = 0
    /\ calls' = [raw |-> db[TableAt(main)].rows, rules |-> <<>>]
    /\ UNCHANGED <<db, verify, cleaned>>
    /\ UNCHANGED loadVars

\* the five rules, numbered as the comments of clean_table number them
RuleNames == <<"duplicates", "zero_passenger", "zero_mile", "long_distance", "long_duration">>
RuleNumber(name) == CHOOSE k \in 1..Len(RuleNames) : RuleNames[k] = name

\* one rule: the DELETE, removed = before_count - after_count, total_removed += removed
RunRule(after, nextpc) ==
    /\ db' = [db EXCEPT ![TableAt(main)] = Table(after)]
    /\ removed' = Append(removed, Removed(db[TableAt(main)].rows, after))
    /\ total_removed' = total_removed + Removed(db[TableAt(main)].rows, after)
    /\ main' = [main EXCEPT !.pc = nextpc]
    /\ calls' = [calls EXCEPT !.rules = Append(@, RuleNumber(main.pc))]
    /\ UNCHANGED verify
    /\ UNCHANGED loadVars

RemoveDuplicateTrips ==
    /\ main.pc = "duplicates"
    /\ RunRule(DedupTable(TableAt(main), db[TableAt(main)].rows), "zero_passenger")
    /\ UNCHANGED cleaned

RemoveZeroPassengerTrips ==
    /\ main.pc = "zero_passenger"
    /\ RunRule(ZeroPassengerTable(TableAt(main), db[TableAt(main)].rows), "zero_mile")
    /\ UNCHANGED cleaned

RemoveZeroMileTrips ==
    /\ main.pc = "zero_mile"
    /\ RunRule(ZeroMileTable(TableAt(main), db[TableAt(main)].rows), "long_distance")
    /\ UNCHANGED cleaned

RemoveLongDistanceTrips ==
    /\ main.pc = "long_distance"
    /\ RunRule(LongDistanceTable(TableAt(main), db[TableAt(main)].rows), "long_duration")
    /\ UNCHANGED cleaned

\* the fifth rule; clean_table then reads the final count and returns
RemoveLongDurationTrips ==
    /\ main.pc = "long_duration"
    /\ RunRule(LongDurationTable(TableAt(main), db[TableAt(main)].rows), "verify")
    /\ cleaned' = cleaned \cup {TableAt(main)}

VerifyCleaningConditions ==
    /\ main.pc = "verify"
    /\ LET counts == VerifyCounts(TableAt(main), db[TableAt(main)].rows)
       IN verify' = [table |-> TableAt(main), counts |-> counts,
                     pass |-> AllTestsPass(counts)]
    /\ main' = NextTable(main)
    /\ UNCHANGED <<db, removed, total_removed, cleaned>>
    /\ UNCHANGED <<calls, loadVars>>

\* main: finally: con.close()
MainClose ==
    /\ main.pc = "close"
    /\ main' = [main EXCEPT !.pc = "idle", !.con = "closed"]
    /\ UNCHANGED <<db, removed, total_removed, verify, cleaned>>
    /\ UNCHANGED <<calls, loadVars>>

NextClean ==
    \/ MainConnect
    \/ SkipMissingTable
    \/ StartCleanTable
    \/ RemoveDuplicateTrips
    \/ RemoveZeroPassengerTrips
    \/ RemoveZeroMileTrips
    \/ RemoveLongDistanceTrips
    \/ RemoveLongDurationTrips
    \/ VerifyCleaningConditions
    \/ MainClose

SpecClean == InitClean /\ [][NextClean]_vars

----------------------------------------------------------------------------
(* clean.py: the five rule functions called one by one, in any order *)

\* the table after remove_duplicate_trips (1) ... remove_long_duration_trips (5)
RuleTable(k, table, t) ==
    CASE k = 1 -> DedupTable(table, t)
      [] k = 2 -> ZeroPassengerTable(table, t)
      [] k = 3 -> ZeroMileTable(table, t)
      [] k = 4 -> LongDistanceTable(table, t)
      [] k = 5 -> LongDurationTable(table, t)

\* the tables the rule functions are called on: one row fewer than main's
InitRules ==
    /\ \E table \in CabSet : \E n \in 0..(MaxRows - 1) :
         \E t \in [0..(n - 1) -> RawTrips(table)] :
            db = [c \in StoreTables |-> IF c = table THEN Table(t) ELSE NoTable]
    /\ CleanIdle
    /\ LoadIdle

\* rule k's function is called on the table, as the first or after other rules; it
\* returns its removed count
CallRule(k, table) ==
    /\ main.pc = "idle"
    /\ db[table].exists
    /\ \A j \in 1..Len(calls.rules) : calls.rules[j] # k
    /\ db' = [db EXCEPT ![table] = Table(RuleTable(k, table, db[table].rows))]
    /\ removed' = Append(removed, Removed(db[table].rows,
                                          RuleTable(k, table, db[table].rows)))
    /\ calls' = [raw |-> IF calls.rules = <<>> THEN db[table].rows ELSE calls.raw,
                 rules |-> Append(calls.rules, k)]
    /\ UNCHANGED <<main, total_removed, verify, cleaned>>
    /\ UNCHANGED loadVars

NextRules == \E k \in 1..Len(RuleNames) : \E table \in CabSet : CallRule(k, table)

SpecRules == InitRules /\ [][NextRules]_vars

----------------------------------------------------------------------------
(* clean.py: verify_cleaning_conditions called on a table as it is, cleaned or not *)

\* verify_cleaning_conditions(con, table) called while main is not running
CallVerifyCleaningConditions(table) ==
    /\ main.pc = "idle"
    /\ db[table].exists
    /\ LET counts == VerifyCounts(table, db[table].rows)
       IN verify' = [table |-> table, counts |-> counts, pass |-> AllTestsPass(counts)]
    /\ UNCHANGED <<db, main, removed, total_removed, cleaned, calls>>
    /\ UNCHANGED loadVars

NextVerify ==
    \/ NextClean
    \/ \E table \in CabSet : CallVerifyCleaningConditions(table)

SpecVerify == InitClean /\ [][NextVerify]_vars

----------------------------------------------------------------------------
(* load.py: download_parquet *)

\* the file of a key exists in data/: out_path.exists()
\* a variant that never finds the file
CacheHitNever(k) == FALSE

CacheHit(k) == k \in cached

\* what download_parquet's caller sees of a call
Fetched(k, net, outcome) ==
    [key |-> k, existed |-> k \in cached, network |-> net, outcome |-> outcome,
     path |-> IF outcome = "returned" THEN OutPath(k.cab, k.year, k.month) ELSE <<>>]

\* open(out_path, "wb") and the chunks written: one more body transfer for the key
TransferStarted(k) ==
    [transfers EXCEPT ![k] = IF @ < MaxRuns + 1 THEN @ + 1 ELSE @]

----------------------------------------------------------------------------
(* load.py: load_parquet_files, one action per download_parquet call and per *)
(* statement on the store                                                   *)

CurKey(r) == Key(CabTypes[r.ci], r.years[r.yi], r.month)

\* the next (year, month) of the two inner loops, or the statement after them
Advance(r) ==
    IF r.month < LastMonth THEN [r EXCEPT !.month = r.month + 1]
    ELSE IF r.yi < Len(r.years) THEN [r EXCEPT !.yi = r.yi + 1, !.month = 1]
    ELSE [r EXCEPT !.pc = "load"]

\* the next class of "for cab in cab_types", or the statement after the loop
NextCab(r) ==
    IF r.ci < Len(CabTypes)
    THEN [r EXCEPT !.pc = "fetch", !.ci = r.ci + 1, !.yi = 1, !.month = 1,
                   !.all_files = <<>>]
    ELSE [r EXCEPT !.pc = "csv"]

\* all_files.append(str(fpath))
Obtained(r) ==
    Advance([r EXCEPT !.all_files = Append(r.all_files, CurKey(r)),
                      !.attempted = r.attempted \cup {CurKey(r)}])

\* a variant of the handler that lets the exception end the run
OnFetchErrorAbort(r) ==
    [r EXCEPT !.attempted = r.attempted \cup {CurKey(r)},
              !.failed = r.failed \cup {CurKey(r)},
              !.pc = "finally", !.err = "fetch"]

\* except Exception as e: logger.warning("Could not download ..."), and the loop goes on
OnFetchError(r) ==
    Advance([r EXCEPT !.attempted = r.attempted \cup {CurKey(r)},
                      !.failed = r.failed \cup {CurKey(r)}])

\* load_parquet_files is called: duckdb.connect succeeds, data/ is made
StartRun(years) ==
    /\ run.pc = "idle"
    /\ run.runs < MaxRuns
    /\ run' = [pc |-> "fetch", years |-> years, ci |-> 1, yi |-> 1, month |-> 1,
               all_files |-> <<>>, con |-> "open", err |-> "none",
               attempted |-> {}, failed |-> {}, obtained |-> [c \in CabSet |-> <<>>],
               created |-> {}, db0 |-> db, cached0 |-> cached,
               prev |-> [years |-> run.years,
                         ok |-> run.runs > 0 /\ run.err = "none"],
               runs |-> run.runs + 1]
    /\ UNCHANGED <<db, cached, complete, lastFetch, transfers, faults>>
    /\ UNCHANGED <<script, cleanVars>>

\* duckdb.connect raises: the except block logs it, con is None in the finally block
ConnectFails(years) ==
    /\ run.pc = "idle"
    /\ run.runs < MaxRuns
    /\ run' = [IdleRun EXCEPT !.years = years, !.err = "connect",
                              !.runs = run.runs + 1]
    /\ UNCHANGED <<db, cached, complete, lastFetch, transfers, faults>>
    /\ UNCHANGED <<script, cleanVars>>

\* download_parquet finds the file: "File already exists", no request
FetchCached ==
    /\ run.pc = "fetch"
    /\ CacheHit(CurKey(run))
    /\ lastFetch' = Fetched(CurKey(run), FALSE, "returned")
    /\ run' = Obtained(run)
    /\ UNCHANGED <<db, cached, complete, transfers, faults>>
    /\ UNCHANGED <<script, cleanVars>>

\* download_parquet requests the file and writes all of it
FetchDownloaded ==
    /\ run.pc = "fetch"
    /\ ~CacheHit(CurKey(run))
    /\ Published(CurKey(run))
    /\ cached' = cached \cup {CurKey(run)}
    /\ complete' = complete \cup {CurKey(run)}
    /\ transfers' = TransferStarted(CurKey(run))
    /\ lastFetch' = Fetched(CurKey(run), TRUE, "returned")
    /\ run' = Obtained(run)
    /\ UNCHANGED <<db, faults>>
    /\ UNCHANGED <<script, cleanVars>>

\* requests.get or raise_for_status raises: no file is opened
FetchHttpError ==
    /\ run.pc = "fetch"
    /\ ~CacheHit(CurKey(run))
    /\ Published(CurKey(run)) => faults < MaxFaults
    /\ faults' = IF Published(CurKey(run)) THEN faults + 1 ELSE faults
    /\ lastFetch' = Fetched(CurKey(run), TRUE, "raised")
    /\ run' = OnFetchError(run)
    /\ UNCHANGED <<db, cached, complete, transfers>>
    /\ UNCHANGED <<script, cleanVars>>

\* the file is opened for writing and iter_content raises before the last chunk
FetchStreamError ==
    /\ run.pc = "fetch"
    /\ ~CacheHit(CurKey(run))
    /\ Published(CurKey(run))
    /\ faults < MaxFaults
    /\ faults' = faults + 1
    /\ cached' = cached \cup {CurKey(run)}
    /\ complete' = complete \ {CurKey(run)}
    /\ transfers' = TransferStarted(CurKey(run))
    /\ lastFetch' = Fetched(CurKey(run), TRUE, "raised")
    /\ run' = OnFetchError(run)
    /\ UNCHANGED db
    /\ UNCHANGED <<script, cleanVars>>

\* parquet_scan reads every file of the list, and both casts succeed on every name
Loadable(fs) ==
    \A i \in 1..Len(fs) :
        /\ fs[i] \in complete
        /\ CanCastInteger(ExtractYear(OutPath(fs[i].cab, fs[i].year, fs[i].month)))
        /\ CanCastInteger(ExtractMonth(OutPath(fs[i].cab, fs[i].year, fs[i].month)))

\* SELECT *, CAST(regexp_extract(filename, ...)) AS trip_year, ... AS trip_month
\* of one file, FILENAME=1 adding the filename column
SelectFile(k) ==
    LET path == OutPath(k.cab, k.year, k.month)
    IN [i \in 1..Len(RemoteRows(k)) |->
          RemoteRows(k)[i] @@ [filename |-> path,
                               trip_year |-> CastInteger(ExtractYear(path)),
                               trip_month |-> CastInteger(ExtractMonth(path))]]

RECURSIVE ScanAll(_)
\* FROM parquet_scan(all_files): the rows of the files, file after file
ScanAll(fs) == IF fs = <<>> THEN <<>> ELSE SelectFile(Head(fs)) \o ScanAll(Tail(fs))

\* rowids start at 0
WithRowids(rows) == [i \in 0..(Len(rows) - 1) |-> rows[i + 1]]

\* CREATE OR REPLACE TABLE ... AS SELECT: the new table takes the place of the old
CreateOrReplace(old, rows) == Table(WithRowids(rows))

\* if not all_files: "No files found for {cab}, skipping", continue
LoadSkip ==
    /\ run.pc = "load"
    /\ run.all_files = <<>>
    /\ run' = NextCab(run)
    /\ UNCHANGED <<db, cached, complete, lastFetch, transfers, faults>>
    /\ UNCHANGED <<script, cleanVars>>

\* the CREATE OR REPLACE statement and the two count queries succeed
LoadCreate ==
    /\ run.pc = "load"
    /\ run.all_files # <<>>
    /\ Loadable(run.all_files)
    /\ db' = [db EXCEPT ![CabTypes[run.ci]] = CreateOrReplace(@, ScanAll(run.all_files))]
    /\ run' = NextCab([run EXCEPT !.obtained[CabTypes[run.ci]] = run.all_files,
                                  !.created = run.created \cup {CabTypes[run.ci]}])
    /\ UNCHANGED <<cached, complete, lastFetch, transfers, faults>>
    /\ UNCHANGED <<script, cleanVars>>

\* the statement raises (a file that is no parquet file, a name the casts reject):
\* the table is as it was, the outer except block logs the error
LoadFault ==
    /\ run.pc = "load"
    /\ run.all_files # <<>>
    /\ ~Loadable(run.all_files)
    /\ run' = [run EXCEPT !.obtained[CabTypes[run.ci]] = run.all_files,
                          !.pc = "finally", !.err = "load"]
    /\ UNCHANGED <<db, cached, complete, lastFetch, transfers, faults>>
    /\ UNCHANGED <<script, cleanVars>>

EmissionRows == <<[line |-> 1]>>

\* data/vehicle_emissions.csv exists: CREATE OR REPLACE TABLE vehicle_emissions
LoadCsv ==
    /\ run.pc = "csv"
    /\ db' = [db EXCEPT !["vehicle_emissions"] = CreateOrReplace(@, EmissionRows)]
    /\ run' = [run EXCEPT !.pc = "finally"]
    /\ UNCHANGED <<cached, complete, lastFetch, transfers, faults>>
    /\ UNCHANGED <<script, cleanVars>>

\* the csv is not there: a warning
CsvMissing ==
    /\ run.pc = "csv"
    /\ run' = [run EXCEPT !.pc = "finally"]
    /\ UNCHANGED <<db, cached, complete, lastFetch, transfers, faults>>
    /\ UNCHANGED <<script, cleanVars>>

\* finally: con.close(); load_parquet_files returns and its locals are gone
CloseRun ==
    /\ run.pc = "finally"
    /\ run' = [IdleRun EXCEPT !.years = run.years, !.err = run.err, !.con = "closed",
                              !.runs = run.runs]
    /\ lastFetch' = NoFetch
    /\ UNCHANGED <<db, cached, complete, transfers, faults>>
    /\ UNCHANGED <<script, cleanVars>>

InitLoad ==
    /\ db = EmptyStore
    /\ CleanIdle
    /\ LoadIdle

NextLoad ==
    \/ \E years \in YearArgs : StartRun(years)
    \/ \E years \in YearArgs : ConnectFails(years)
    \/ FetchCached
    \/ FetchDownloaded
    \/ FetchHttpError
    \/ FetchStreamError
    \/ LoadSkip
    \/ LoadCreate
    \/ LoadFault
    \/ LoadCsv
    \/ CsvMissing
    \/ CloseRun

SpecLoad == InitLoad /\ [][NextLoad]_vars

----------------------------------------------------------------------------
(* load.py: the script body, load_parquet_files(years=(2024,)) and the summaries *)

\* for table in ["yellow", "green", "vehicle_emissions"]
SummaryTables == <<"yellow", "green", "vehicle_emissions">>

\* the script's load_parquet_files(years=(2024,)) call has returned
ScriptLoadReturned ==
    /\ script.pc = "load"
    /\ run.pc = "idle"
    /\ run.runs >= 1
    /\ run.years = <<DefaultYear>>

\* con = duckdb.connect(database='emissions.duckdb', read_only=True)
SummaryConnect ==
    /\ ScriptLoadReturned
    /\ script' = [pc |-> "summarize", ti |-> 1, con |-> "open"]
    /\ UNCHANGED <<db, cached, complete, run, lastFetch, transfers, faults>>
    /\ UNCHANGED cleanVars

\* the connect raises: the script ends with the exception
SummaryConnectFails ==
    /\ ScriptLoadReturned
    /\ script' = [pc |-> "done", ti |-> 0, con |-> "none"]
    /\ UNCHANGED <<db, cached, complete, run, lastFetch, transfers, faults>>
    /\ UNCHANGED cleanVars

\* summarize_table(con, table), which logs its own errors; after the last table the
\* script ends
SummarizeTable ==
    /\ script.pc = "summarize"
    /\ script' = IF script.ti < Len(SummaryTables)
                 THEN [script EXCEPT !.ti = script.ti + 1]
                 ELSE [script EXCEPT !.pc = "done"]
    /\ UNCHANGED <<db, cached, complete, run, lastFetch, transfers, faults>>
    /\ UNCHANGED cleanVars

\* runs of load_parquet_files, the last of them the script's, and the script's end
NextScript ==
    \/ script.pc = "load" /\ NextLoad
    \/ SummaryConnect
    \/ SummaryConnectFails
    \/ SummarizeTable

SpecScript == InitLoad /\ [][NextScript]_vars

----------------------------------------------------------------------------
(* Claims about clean.py, checked under SpecClean *)

RulePcs == {"duplicates", "zero_passenger", "zero_mile", "long_distance", "long_duration"}

RowsOf(table) == db[table].rows

NoTwoRowsShareKey(table, t) ==
    \A i \in DOMAIN t : \A j \in DOMAIN t :
        i # j => DupKey(table, t[i]) # DupKey(table, t[j])

\* C1 as stated: after clean_table completes, every remaining record has
\* passenger_count > 0, 0 < trip_distance <= 100 and 0 < dropoff - pickup <= 86400,
\* and no two remaining records are equal on the key.
C1_EveryRecordStrictlyValid ==
    \A table \in cleaned :
        /\ \A i \in DOMAIN RowsOf(table) :
             LET r == RowsOf(table)[i]
                 pu == r[PickupCol(table)]
                 do == r[DropoffCol(table)]
             IN /\ r.passenger_count # NULL /\ r.passenger_count[1] > 0
                /\ r.trip_distance # NULL
                /\ 0 < r.trip_distance[1] /\ r.trip_distance[1] <= 100
                /\ pu # NULL /\ do # NULL
                /\ 0 < do[1] - pu[1] /\ do[1] - pu[1] <= 86400
        /\ NoTwoRowsShareKey(table, RowsOf(table))

\* C1 as amended: after clean_table completes, no remaining record has
\* passenger_count = 0, trip_distance = 0, trip_distance > 100 or
\* dropoff - pickup > 86400 (records whose value is NULL or negative, and records
\* whose dropoff is at or before the pickup, remain), and no two remaining records
\* are equal on the key.
C1_NoRecordMatchesARule ==
    \A table \in cleaned :
        /\ \A i \in DOMAIN RowsOf(table) :
             LET r == RowsOf(table)[i]
                 pu == r[PickupCol(table)]
                 do == r[DropoffCol(table)]
             IN /\ r.passenger_count = NULL \/ r.passenger_count[1] # 0
                /\ r.trip_distance = NULL
                     \/ (r.trip_distance[1] # 0 /\ r.trip_distance[1] <= 100)
                /\ pu = NULL \/ do = NULL \/ do[1] - pu[1] <= 86400
        /\ NoTwoRowsShareKey(table, RowsOf(table))

\* C1 witness: clean_table has just completed, it removed rows, and a record with a
\* NULL passenger count and a record with a dropoff before its pickup remain.
C1_Witness ==
    /\ main.pc = "verify"
    /\ TableAt(main) \in cleaned
    /\ total_removed > 0
    /\ \E i \in DOMAIN RowsOf(TableAt(main)) :
          RowsOf(TableAt(main))[i].passenger_count = NULL
    /\ \E i \in DOMAIN RowsOf(TableAt(main)) :
          LET r == RowsOf(TableAt(main))[i]
          IN /\ r[DropoffCol(TableAt(main))] # NULL
             /\ r[DropoffCol(TableAt(main))][1] < r[PickupCol(TableAt(main))][1]

\* a step of one of the five rules
RuleStep == main.pc \in RulePcs /\ main'.pc # main.pc

\* C2: every rule run by a clean_table call on a table on which clean_table has
\* already completed removes 0 rows and leaves the table unchanged.
C2_SecondCleanRemovesNothing ==
    [][(RuleStep /\ TableAt(main) \in cleaned)
          => (db' = db /\ removed' = Append(removed, 0) /\ total_removed' = 0)]_vars

\* C2 witness: a second clean_table call has run its first four rules on a table
\* that still has rows.
C2_Witness ==
    /\ main.pc = "long_duration"
    /\ TableAt(main) \in cleaned
    /\ removed = <<0, 0, 0, 0>>
    /\ CountRows(RowsOf(TableAt(main))) >= 2

\* the duplicate groups of a table: the sets of rowids whose rows are equal on the key
Groups(table, t) ==
    {{j \in DOMAIN t : DupKey(table, t[j]) = DupKey(table, t[i])} : i \in DOMAIN t}

RECURSIVE Surplus(_)
\* the sum of (size - 1) over a set of groups
Surplus(G) ==
    IF G = {} THEN 0
    ELSE LET g == CHOOSE x \in G : TRUE IN (Cardinality(g) - 1) + Surplus(G \ {g})

\* C3: remove_duplicate_trips returns the sum of (group size - 1), keeps of every
\* group exactly the row with the lowest rowid, unchanged, and leaves no two rows
\* equal on the key.
C3_DuplicateLaw ==
    [][(main.pc = "duplicates" /\ main'.pc # main.pc)
          => LET table == TableAt(main)
                 before == db[table].rows
                 after == db'[table].rows
             IN /\ removed'[Len(removed')] = Surplus(Groups(table, before))
                /\ DOMAIN after =
                      {CHOOSE i \in g : \A j \in g : i <= j : g \in Groups(table, before)}
                /\ \A i \in DOMAIN after : after[i] = before[i]
                /\ NoTwoRowsShareKey(table, after)]_vars

\* C3 witness: remove_duplicate_trips has run on a raw table with a group of two
\* and a row of its own, removed one row and kept rowids 0 and one other.
C3_Witness ==
    /\ main.pc = "zero_passenger"
    /\ TableAt(main) \notin cleaned
    /\ removed = <<1>>
    /\ CountRows(RowsOf(TableAt(main))) = 2
    /\ 0 \in DOMAIN RowsOf(TableAt(main))

Zero5 == <<0, 0, 0, 0, 0>>

----------------------------------------------------------------------------
(* Claims about load.py, checked under SpecLoad *)

SeqSet(q) == {q[i] : i \in 1..Len(q)}

\* the (class, year, month) triples a run asks download_parquet for
ClassKeys(c, years) == {Key(c, years[i], m) : i \in 1..Len(years), m \in Months}
RequestedKeys(years) == UNION {ClassKeys(c, years) : c \in CabSet}

\* every (class, year, month) a run can ask for
AllKeys ==
    {Key(c, y, m) : c \in CabSet,
                    y \in PublishedYears \cup UNION {SeqSet(ys) : ys \in YearArgs},
                    m \in Months}

\* the canonical cache name of each key: data/{class}_tripdata_{year}-{month}.parquet
CanonicalPath == [k \in AllKeys |-> DataDirChars \o FileName(k.cab, k.year, k.month)]

\* the rows a class table owes to the file of each key
RowsFrom ==
    [k \in AllKeys |->
        {RemoteRows(k)[i] @@ [filename |-> CanonicalPath[k],
                              trip_year |-> k.year, trip_month |-> k.month]
           : i \in 1..Len(RemoteRows(k))}]

TableRowSet(t) == {t.rows[i] : i \in DOMAIN t.rows}

\* table t holds the rows of the files of the keys K, each once, and nothing else
HoldsExactly(t, K) ==
    /\ TableRowSet(t) = UNION {RowsFrom[k] : k \in K}
    /\ CountRows(t.rows) = Cardinality(UNION {RowsFrom[k] : k \in K})

\* load_parquet_files is about to return without having logged an error
RunEndsOk == run.pc = "finally" /\ run.err = "none"

\* C5: a file is in the cache exactly when one body transfer was made for it, no
\* key is ever transferred twice, and a download_parquet call that finds the file
\* makes no request and returns the canonical path.
C5_IdempotentFetch ==
    /\ cached \subseteq PublishedKeys
    /\ \A k \in PublishedKeys :
          /\ transfers[k] <= 1
          /\ k \in cached <=> transfers[k] = 1
    /\ lastFetch.existed =>
          /\ ~lastFetch.network
          /\ lastFetch.outcome = "returned"
          /\ lastFetch.path = CanonicalPath[lastFetch.key]

\* C5 witness: in a second run download_parquet has returned a file that the first
\* run transferred.
C5_Witness ==
    /\ run.runs = 2
    /\ run.pc = "fetch"
    /\ lastFetch.existed
    /\ lastFetch.outcome = "returned"
    /\ lastFetch.key \in complete
    /\ transfers[lastFetch.key] = 1

\* C6: a file exists under its canonical cache name only if its transfer completed.
C6_CachedOnlyIfComplete == \A k \in cached : k \in complete

\* C7: a failed download never ends the run; when the loader reaches the load
\* statement of a class it has asked for every month of every requested year of the
\* class, and the file list holds exactly those that did not fail; a run that reaches
\* its end without a statement error has asked for every requested month of every
\* class; no row of a table the run created comes from a month that failed.
C7_FailedMonthIsSkipped ==
    /\ run.err # "fetch"
    /\ run.failed \subseteq run.attempted
    /\ run.pc = "load" =>
          /\ ClassKeys(CabTypes[run.ci], run.years) \subseteq run.attempted
          /\ SeqSet(run.all_files)
               = ClassKeys(CabTypes[run.ci], run.years) \ run.failed
    /\ (run.pc \in {"csv", "finally"} /\ run.err = "none") =>
          run.attempted = RequestedKeys(run.years)
    /\ \A c \in run.created :
          /\ SeqSet(run.obtained[c]) \cap run.failed = {}
          /\ HoldsExactly(db[c], SeqSet(run.obtained[c]))

\* C7 witness: a run is about to return without error; the download of a published
\* month failed in it, and the table of the same class was created from another month.
C7_Witness ==
    /\ RunEndsOk
    /\ \E k \in run.failed \cap PublishedKeys :
          /\ k.cab \in run.created
          /\ CountRows(db[k.cab].rows) >= 1
    /\ run.created = CabSet

\* C8: after every run that ends without error, each class's table holds exactly the
\* rows of the files cached for the class, each once (also when the run obtained no
\* file for the class); and a run with the years of the run before it, which ended
\* without error, over an unchanged cache leaves every class table as it was.
C8_TableIsTheCache ==
    RunEndsOk =>
        /\ \A c \in CabSet : HoldsExactly(db[c], {k \in complete : k.cab = c})
        /\ (run.prev.ok /\ run.prev.years = run.years /\ cached = run.cached0)
              => \A c \in CabSet : db[c] = run.db0[c]

\* C9: every row of a class table carries the name of a file of the class, its
\* trip_year and trip_month are the year and month of that name, and the row is a
\* row of that file.
C9_PartitionFromFileName ==
    \A c \in CabSet : \A i \in DOMAIN db[c].rows :
        \E k \in {q \in PublishedKeys : q.cab = c} :
            /\ db[c].rows[i].filename = CanonicalPath[k]
            /\ db[c].rows[i].trip_year = k.year
            /\ db[c].rows[i].trip_month = k.month
            /\ db[c].rows[i] \in RowsFrom[k]

\* the month a timestamp of the model falls in
MonthOfTimestamp(ts) == ts \div 100

\* C9 witness: a table holds rows of two files, of a one-digit and of a two-digit
\* month, and a row whose pickup falls in another month than its trip_month.
C9_Witness ==
    \E c \in CabSet :
        /\ \E i \in DOMAIN db[c].rows : db[c].rows[i].trip_month < 10
        /\ \E i \in DOMAIN db[c].rows : db[c].rows[i].trip_month >= 10
        /\ \E i \in DOMAIN db[c].rows :
              MonthOfTimestamp(db[c].rows[i][PickupCol(c)][1]) # db[c].rows[i].trip_month

\* C10: when the load statement of a class fails, every class table is the complete
\* old table or a complete new one, and the load of the other class goes ahead.
C10_FaultStopsThatClassOnly ==
    (run.pc = "finally" /\ run.err = "load") =>
        /\ \A c \in CabSet :
              \/ db[c] = run.db0[c]
              \/ c \in run.created /\ HoldsExactly(db[c], SeqSet(run.obtained[c]))
        /\ \A c \in CabSet \ {CabTypes[run.ci]} :
              ClassKeys(c, run.years) \subseteq run.attempted

----------------------------------------------------------------------------
(* Claims about verify_cleaning_conditions, checked under SpecVerify *)

\* what a table holds, stated on its rows
HasDuplicates(table, t) == Surplus(Groups(table, t)) > 0
HasZeroPassengers(t) == \E i \in DOMAIN t : t[i].passenger_count = <<0>>
HasZeroMiles(t) == \E i \in DOMAIN t : t[i].trip_distance = <<0>>
HasLongDistance(t) ==
    \E i \in DOMAIN t : t[i].trip_distance # NULL /\ t[i].trip_distance[1] > 100
HasLongDuration(table, t) ==
    \E i \in DOMAIN t :
        /\ t[i][PickupCol(table)] # NULL
        /\ t[i][DropoffCol(table)] # NULL
        /\ t[i][DropoffCol(table)][1] - t[i][PickupCol(table)][1] > 86400

\* a verify_cleaning_conditions call returns
VerifyStep == verify' # verify

C12_VerifyIsReadOnly ==
    [][VerifyStep =>
          /\ db' = db
          /\ verify'.pass \in BOOLEAN
          /\ (\E k \in 1..5 : verify'.counts[k] # 0) => verify'.pass = FALSE
          /\ main.pc = "verify" =>
                main' = IF main.ti < Len(CabTypes)
                        THEN [main EXCEPT !.pc = "check", !.ti = main.ti + 1]
                        ELSE [main EXCEPT !.pc = "close"]
          /\ main.pc # "verify" => main' = main]_vars

\* C12 witness: a call made outside main has returned False with two nonzero counts,
\* and the table still holds the rows the counts are of.
C12_Witness ==
    /\ main.pc = "idle"
    /\ verify.table \in CabSet
    /\ ~verify.pass
    /\ Cardinality({k \in 1..5 : verify.counts[k] # 0}) >= 2
    /\ VerifyCounts(verify.table, db[verify.table].rows) = verify.counts
    /\ CountRows(db[verify.table].rows) >= 2

----------------------------------------------------------------------------
(* Claims about clean_table's bookkeeping, checked under SpecClean *)

RECURSIVE SumSeq(_)
SumSeq(q) == IF q = <<>> THEN 0 ELSE Head(q) + SumSeq(Tail(q))

\* C13: in a clean_table run the count a rule reports is the row count just before
\* it minus the row count just after it and is never negative; the rule only removes
\* rows; and after each rule the counts reported so far, and the running total, sum
\* to the rows the table has lost since clean_table got it, so that every removed
\* row is counted by exactly one rule.
C13_RemovedCountBookkeeping ==
    [][RuleStep =>
          LET table == TableAt(main)
              before == db[table].rows
              after == db'[table].rows
              count == removed'[Len(removed')]
          IN /\ Len(removed') = Len(removed) + 1
             /\ count = CountRows(before) - CountRows(after)
             /\ count >= 0
             /\ DOMAIN after \subseteq DOMAIN before
             /\ count = Cardinality(DOMAIN before \ DOMAIN after)
             /\ SumSeq(removed') = Cardinality(DOMAIN calls.raw \ DOMAIN after)
             /\ SumSeq(removed') = CountRows(calls.raw) - CountRows(after)
             /\ total_removed' = SumSeq(removed')]_vars

\* C13 witness: clean_table has run its five rules on three rows, two of them equal
\* and with both zero passengers and zero distance; the first three rules each
\* reported one row.
C13_Witness ==
    /\ main.pc = "verify"
    /\ removed = <<1, 1, 1, 0, 0>>
    /\ total_removed = 3
    /\ \E i \in DOMAIN calls.raw :
          IsZeroPassenger(calls.raw[i]) /\ IsZeroMile(calls.raw[i])
    /\ CountRows(db[TableAt(main)].rows) = 0

----------------------------------------------------------------------------
(* Claims about the store connections, checked under SpecScript *)

\* C14: when load_parquet_files has returned, when the load script has ended and
\* when clean.py's main has ended, the connection each of them opened is not open.
C14_NoConnectionLeftOpen ==
    /\ run.pc = "idle" => run.con # "open"
    /\ script.pc = "done" => script.con # "open"
    /\ main.pc = "idle" => main.con # "open"

----------------------------------------------------------------------------
(* Claims about the order of the rules, checked under SpecRules and SpecClean *)

\* the rows clean_table's order leaves of table t
FixedOrderResult(table, t) == CleanStages(table, t)[6]

\* C15: once the five rules have each been applied to a table, in whatever order,
\* the table holds the rows (rowid and values) that the fixed order leaves of it.
C15_OrderIndependentResult ==
    \A table \in CabSet :
        (db[table].exists /\ Len(calls.rules) = Len(RuleNames))
            => db[table].rows = FixedOrderResult(table, calls.raw)

\* C15 witness: duplicate removal was applied last, to a table whose duplicates
\* another rule had already removed, so that the counts differ from those of the
\* fixed order.
C15_Witness ==
    \E table \in CabSet :
        /\ db[table].exists
        /\ Len(calls.rules) = 5
        /\ calls.rules[5] = 1
        /\ HasDuplicates(table, calls.raw)
        /\ removed[5] = 0
        /\ SumSeq(removed) = CountRows(calls.raw)

\* rule k (2..5) deletes row r, stated on the row's values
RowMatches(k, table, r) ==
    CASE k = 2 -> r.passenger_count = <<0>>
      [] k = 3 -> r.trip_distance = <<0>>
      [] k = 4 -> r.trip_distance # NULL /\ r.trip_distance[1] > 100
      [] k = 5 -> /\ r[PickupCol(table)] # NULL
                  /\ r[DropoffCol(table)] # NULL
                  /\ r[DropoffCol(table)][1] - r[PickupCol(table)][1] > 86400

\* the rowids duplicate removal keeps: the lowest of each group
Representatives(table, t) ==
    {CHOOSE i \in g : \A j \in g : i <= j : g \in Groups(table, t)}

\* the rows of t that rule k is the first rule to delete
FirstDeletedBy(k, table, t) ==
    IF k = 1 THEN DOMAIN t \ Representatives(table, t)
    ELSE {i \in Representatives(table, t) :
            /\ RowMatches(k, table, t[i])
            /\ \A j \in 2..(k - 1) : ~RowMatches(j, table, t[i])}

\* C16: clean_table calls the rules in the order duplicates, zero passengers, zero
\* distance, distance > 100, duration > 86400; the count each rule reports is the
\* number of rows of the table clean_table got of which it is the first rule, in
\* that order, to delete them, and the rows that remain are those no rule deletes;
\* of the table of two equal valid rows of 5 miles, a row of 0 miles and a row of
\* 150 miles one row remains, the valid one, and the counts are 1, 0, 1, 1, 0.
C16_FixedOrderAttribution ==
    main.pc \in RulePcs \cup {"verify"} =>
        LET table == TableAt(main)
        IN /\ \A j \in 1..Len(calls.rules) : calls.rules[j] = j
           /\ Len(removed) = Len(calls.rules)
           /\ \A k \in 1..Len(removed) :
                 removed[k] = Cardinality(FirstDeletedBy(k, table, calls.raw))
           /\ main.pc = "verify" =>
                 /\ calls.rules = <<1, 2, 3, 4, 5>>
                 /\ DOMAIN db[table].rows =
                       DOMAIN calls.raw
                          \ UNION {FirstDeletedBy(k, table, calls.raw) : k \in 1..5}
                 /\ calls.raw = ScenarioTable(table) =>
                       /\ removed = <<1, 0, 1, 1, 0>>
                       /\ db[table].rows = (0 :> ScenarioTable(table)[0])

\* C16 witness: clean_table has run its five rules on the table of the four trips.
C16_Witness ==
    /\ main.pc = "verify"
    /\ calls.raw = ScenarioTable(TableAt(main))
    /\ removed = <<1, 0, 1, 1, 0>>
    /\ CountRows(db[TableAt(main)].rows) = 1

----------------------------------------------------------------------------
(* Claims about the two classes, checked under SpecLoad *)

\* the files a run's download_parquet calls have returned for class c
ReturnedFor(c) == {k \in run.attempted \ run.failed : k.cab = c}

\* C17: when a load run that opened the store comes to its end, whatever happened to
\* the other class, every class has had all its months asked for, and every class
\* for which files were returned, all of them whole, has its table made of them.
C17_ClassesProcessedIndependently ==
    run.pc = "finally" =>
        \A c \in CabSet :
            /\ ClassKeys(c, run.years) \subseteq run.attempted
            /\ (ReturnedFor(c) # {} /\ ReturnedFor(c) \subseteq complete)
                  => /\ c \in run.created
                     /\ HoldsExactly(db[c], ReturnedFor(c))

====
